---- MODULE Spec2Model ----
(***************************************************************************)
(* A model of infiniband-exporter.py: the InfinibandCollector that turns   *)
(* the text printed by ibqueryerrors into Prometheus metric families.      *)
(*                                                                         *)
(* Text is modelled by what the program's regular expressions see in it:   *)
(* a line is a record naming the pattern it matches and the groups that    *)
(* pattern captures.  Python integers are unbounded, so counter values are *)
(* kept as NumLimbs limbs of 16 bits, most significant first.              *)
(***************************************************************************)
EXTENDS Integers, Sequences, FiniteSets, TLC

VARIABLES
    can_reset_counter,   \* self.can_reset_counter
    input_file,          \* self.input_file is set (TRUE) or None (FALSE)
    node_name,           \* self.node_name: GUID -> display name
    scrape_with_errors,  \* self.scrape_with_errors
    metrics,             \* self.metrics: family key -> samples of the family
    stdout,              \* text handed to the parser by the running operation
    stderr,              \* stderr text of the tool in the running operation
    emitted,             \* families yielded by the running collect(), in order
    launched,            \* external processes launched by the running operation
    log,                 \* records logged by the running operation
    raised,              \* the running operation caught or ended in a ParsingError
    before,              \* what the object held when the running operation began
    pc                   \* position of the specification's driver

vars == <<can_reset_counter, input_file, node_name, scrape_with_errors,
          metrics, stdout, stderr, emitted, launched, log, raised, before, pc>>

----------------------------------------------------------------------------
(* Unbounded integers as limbs.                                            *)

NumLimbs == 5
Base == 2 ^ 16

Nat2Limbs(n) == [i \in 1..NumLimbs |-> IF i = NumLimbs THEN n ELSE 0]

\* 2 ** k
Pow2(k) ==
    [i \in 1..NumLimbs |-> IF NumLimbs - i = k \div 16 THEN 2 ^ (k % 16) ELSE 0]

\* 2 ** k - 1
Pow2Minus1(k) ==
    [i \in 1..NumLimbs |->
        IF NumLimbs - i < k \div 16 THEN Base - 1
        ELSE IF NumLimbs - i = k \div 16 THEN 2 ^ (k % 16) - 1
        ELSE 0]

\* a >= b on limbs
GE(a, b) ==
    \/ a = b
    \/ \E i \in 1..NumLimbs :
          /\ a[i] > b[i]
          /\ \A j \in 1..(i - 1) : a[j] = b[j]

IntVal(n) == [type |-> "int", int |-> n, str |-> ""]
StrVal(s) == [type |-> "str", int |-> Nat2Limbs(0), str |-> s]
\* a time.time() difference: the model does not follow the clock
Seconds == [type |-> "seconds", int |-> Nat2Limbs(0), str |-> ""]

Range(s) == {s[i] : i \in DOMAIN s}

----------------------------------------------------------------------------
(* The Counter Catalog, in the order of the dict literal.                  *)

counter_table == <<
    [name |-> "LinkDownedCounter",              severity |-> "Error",       bits |-> 8],
    [name |-> "SymbolErrorCounter",             severity |-> "Error",       bits |-> 16],
    [name |-> "PortXmitDiscards",               severity |-> "Error",       bits |-> 16],
    [name |-> "PortSwHOQLifetimeLimitDiscards", severity |-> "Error",       bits |-> 16],
    [name |-> "PortXmitWait",                   severity |-> "Informative", bits |-> 32],
    [name |-> "PortXmitData",                   severity |-> "Informative", bits |-> 64],
    [name |-> "PortRcvData",                    severity |-> "Informative", bits |-> 64],
    [name |-> "PortXmitPkts",                   severity |-> "Informative", bits |-> 64],
    [name |-> "PortRcvPkts",                    severity |-> "Informative", bits |-> 64],
    [name |-> "PortRcvErrors",                  severity |-> "Informative", bits |-> 16],
    [name |-> "PortUnicastXmitPkts",            severity |-> "Informative", bits |-> 64],
    [name |-> "PortUnicastRcvPkts",             severity |-> "Informative", bits |-> 64],
    [name |-> "PortMulticastXmitPkts",          severity |-> "Informative", bits |-> 64],
    [name |-> "PortMulticastRcvPkts",           severity |-> "Informative", bits |-> 64],
    [name |-> "PortBufferOverrunErrors",        severity |-> "Error",       bits |-> 16],
    [name |-> "PortLocalPhysicalErrors",        severity |-> "Error",       bits |-> 16],
    [name |-> "PortRcvRemotePhysicalErrors",    severity |-> "Error",       bits |-> 16],
    [name |-> "PortInactiveDiscards",           severity |-> "Error",       bits |-> 16],
    [name |-> "PortDLIDMappingErrors",          severity |-> "Error",       bits |-> 16],
    [name |-> "LinkErrorRecoveryCounter",       severity |-> "Error",       bits |-> 8],
    [name |-> "LocalLinkIntegrityErrors",       severity |-> "Error",       bits |-> 4],
    [name |-> "VL15Dropped",                    severity |-> "Error",       bits |-> 16],
    [name |-> "PortNeighborMTUDiscards",        severity |-> "Error",       bits |-> 16] >>

\* the keys of self.counter_info, in iteration order
counter_names == [i \in DOMAIN counter_table |-> counter_table[i].name]

counter_info ==
    [n \in Range(counter_names) |->
        counter_table[CHOOSE i \in DOMAIN counter_table : counter_table[i].name = n]]

\* the keys of self.gauge_info, in iteration order
gauge_names == <<"Speed", "Width">>

gauge_info == [n \in Range(gauge_names) |-> [help |-> n]]

\* the keys init_metrics writes into self.metrics
family_keys == Range(gauge_names) \cup Range(counter_names)

----------------------------------------------------------------------------
(* Lines of the report, by the pattern they match.                         *)

\* "GUID <guid> port <n>:[name == value] [name == value] ..."
PortLine(guid, port, counters) ==
    [kind |-> "port", guid |-> guid, port |-> port, counters |-> counters]

\* "Link info: <lid> <port>[ ] ==( <width>X <speed> Gbps <state>/ ...)==> ..."
\* head: the line opens as link_pattern wants it.
LinkLine(head, state, remote) ==
    [kind |-> "link", head |-> head, state |-> state,
     Width |-> remote.Width, Speed |-> remote.Speed,
     remote_GUID |-> remote.remote_GUID, remote_port |-> remote.remote_port,
     node_name |-> remote.node_name]

\* "GUID <guid> port ALL: [..]"; full: nothing follows the last bracket
AllPortsLine(full) == [kind |-> "allports", full |-> full]
BlankLine == [kind |-> "blank"]          \* ''
SepLine   == [kind |-> "sep"]            \* a line holding "##"
JunkLine  == [kind |-> "junk"]           \* anything else

Token(name, value) == [name |-> name, value |-> value]

\* self.switch_all_ports_pattern.match / .fullmatch
switch_all_ports_match(line) == line.kind = "allports"
switch_all_ports_fullmatch(line) == line.kind = "allports" /\ line.full

\* self.port_pattern.match
port_pattern_match(line) == line.kind = "port"

\* self.link_pattern.match
link_pattern_match(line) == line.kind = "link" /\ line.head

\* self.active_link_pattern.match
active_link_pattern_match(line) == line.kind = "link" /\ line.state = "Active"

\* line == '' or "##" in line
blank_or_separator(line) == line.kind = "blank" \/ line.kind = "sep"

----------------------------------------------------------------------------
(* The collector's methods.  A method that changes the object or has an    *)
(* effect takes and returns st, a record of                                *)
(*   metrics, scrape_with_errors : the object's fields,                    *)
(*   launched, log               : the processes launched and the records  *)
(*                                 logged so far.                          *)

\* the decimal texts of 1, 2, ...
port_texts == <<"1", "2", "3", "4", "5", "6">>

\* int() of the port texts the reports use
int(s) ==
    IF s \in {"0", "00"} THEN 0
    ELSE CHOOSE i \in DOMAIN port_texts : port_texts[i] = s

LogRecord(level, msg, subject) == [level |-> level, msg |-> msg, subject |-> subject]

Process(prog, guid, port) == [prog |-> prog, guid |-> guid, port |-> port]

\* chunks(x, n): x cut into consecutive pieces of n items, the last one shorter
chunks(x, n) ==
    [i \in 1..((Len(x) + n - 1) \div n) |->
        SubSeq(x, (i - 1) * n + 1, IF i * n < Len(x) THEN i * n ELSE Len(x))]

\* parse_counter: a dict as the sequence of its items, in insertion order;
\* a name listed again keeps its place and takes the later value.
RECURSIVE parse_counter_from(_, _, _)
parse_counter_from(tokens, i, counters) ==
    IF i > Len(tokens) THEN counters
    ELSE LET t == tokens[i]
             known == {j \in DOMAIN counters : counters[j].name = t.name}
         IN parse_counter_from(tokens, i + 1,
                IF known = {} THEN Append(counters, t)
                ELSE [j \in DOMAIN counters |->
                         IF j \in known THEN t ELSE counters[j]])

parse_counter(s) == parse_counter_from(s, 1, <<>>)

\* MetricFamily.add_metric on self.metrics[key]
add_metric(st, key, label_values, value) ==
    [st EXCEPT !.metrics[key] =
        Append(@, [labels |-> label_values, value |-> value])]

\* reset_counter, had it not consulted self.can_reset_counter
reset_counter_unasked(st, guid, port, reason) ==
    LET switch_name == IF guid \in DOMAIN node_name THEN node_name[guid] ELSE guid
    IN [st EXCEPT
          !.log = Append(@, LogRecord("info", "Reseting counters",
                                      <<switch_name, port, reason>>)),
          !.launched = Append(@, Process("perfquery", guid, port))]

reset_counter(st, guid, port, reason) ==
    LET switch_name == IF guid \in DOMAIN node_name THEN node_name[guid] ELSE guid
    IN IF can_reset_counter
       THEN [st EXCEPT
               !.log = Append(@, LogRecord("info", "Reseting counters",
                                           <<switch_name, port, reason>>)),
               !.launched = Append(@, Process("perfquery", guid, port))]
       ELSE [st EXCEPT
               !.log = Append(@, LogRecord("warning", "Counters is maxed out",
                                           <<switch_name, port, reason>>))]

\* parse_item_counter, had the comparison with the threshold been strict
parse_item_counter_above(st, label_values, guid, port, counter, value) ==
    IF counter \notin DOMAIN st.metrics
    THEN [st EXCEPT !.scrape_with_errors = TRUE,
                    !.log = Append(@, LogRecord("error", "Missing description",
                                                <<counter>>))]
    ELSE LET added == add_metric(st, counter, label_values, IntVal(value))
         IN IF counter \notin DOMAIN counter_info
            THEN [added EXCEPT !.scrape_with_errors = TRUE,
                               !.log = Append(@, LogRecord("error", "Missing description",
                                                           <<counter>>))]
            ELSE IF /\ GE(value, Pow2(counter_info[counter].bits - 1))
                    /\ value # Pow2(counter_info[counter].bits - 1)
                 THEN reset_counter(added, guid, port, counter)
                 ELSE added

\* the body of "for counter in counters" in parse_item
parse_item_counter(st, label_values, guid, port, counter, value) ==
    IF counter \notin DOMAIN st.metrics
    THEN \* self.metrics[counter] raises KeyError
         [st EXCEPT !.scrape_with_errors = TRUE,
                    !.log = Append(@, LogRecord("error", "Missing description",
                                                <<counter>>))]
    ELSE LET added == add_metric(st, counter, label_values, IntVal(value))
         IN IF counter \notin DOMAIN counter_info
            THEN \* self.counter_info[counter] raises KeyError
                 [added EXCEPT !.scrape_with_errors = TRUE,
                               !.log = Append(@, LogRecord("error", "Missing description",
                                                           <<counter>>))]
            ELSE IF GE(value, Pow2(counter_info[counter].bits - 1))
                 THEN reset_counter(added, guid, port, counter)
                 ELSE added

RECURSIVE parse_item_counters(_, _, _, _, _, _)
parse_item_counters(st, label_values, guid, port, counters, i) ==
    IF i > Len(counters) THEN st
    ELSE parse_item_counters(
            parse_item_counter(st, label_values, guid, port,
                               counters[i].name, counters[i].value),
            label_values, guid, port, counters, i + 1)

RECURSIVE parse_item_gauges(_, _, _, _)
parse_item_gauges(st, label_values, match_link, i) ==
    IF i > Len(gauge_names) THEN st
    ELSE parse_item_gauges(
            add_metric(st, gauge_names[i], label_values,
                       StrVal(IF gauge_names[i] = "Speed" THEN match_link.Speed
                              ELSE match_link.Width)),
            label_values, match_link, i + 1)

parse_item(st, component, name, match_port, match_link) ==
    LET guid == match_port.guid
        port == match_port.port
        counters == parse_counter(match_port.counters)
        label_values == <<component, name, guid, port,
                          match_link.remote_GUID, match_link.remote_port,
                          match_link.node_name>>
    IN parse_item_counters(parse_item_gauges(st, label_values, match_link, 1),
                           label_values, guid, port, counters, 1)

\* the outcome of a step that may raise ParsingError
Returned(st) == [st |-> st, raised |-> FALSE]
ParsingError(st, msg) == [st |-> st, raised |-> TRUE, msg |-> msg]

\* the body of "for item_pair in self.chunks(item_lines, 2)" in process_item
\* process_item_pair, had it not tested "int(match_port.group('port')) > 0"
process_item_pair_any_port(st, component, name, item_pair) ==
    IF Len(item_pair) = 2
    THEN LET port_item == item_pair[1]
             link_item == item_pair[2]
         IN IF port_pattern_match(port_item)
            THEN IF ~link_pattern_match(link_item)
                 THEN ParsingError(st, "No link info line match for port")
                 ELSE IF active_link_pattern_match(link_item)
                      THEN Returned(parse_item(st, component, name,
                                               port_item, link_item))
                      ELSE Returned(st)
            ELSE IF blank_or_separator(port_item)
                 THEN IF ~blank_or_separator(link_item)
                      THEN ParsingError(st, "Inconsistent data found")
                      ELSE Returned(st)
                 ELSE ParsingError(st, "Inconsistent data found")
    ELSE IF item_pair[1].kind # "sep"
         THEN ParsingError(st, "Inconsistent data found")
         ELSE Returned(st)

process_item_pair(st, component, name, item_pair) ==
    IF Len(item_pair) = 2
    THEN LET port_item == item_pair[1]
             link_item == item_pair[2]
         IN IF port_pattern_match(port_item)
            THEN IF int(port_item.port) > 0
                 THEN IF ~link_pattern_match(link_item)
                      THEN ParsingError(st, "No link info line match for port")
                      ELSE IF active_link_pattern_match(link_item)
                           THEN Returned(parse_item(st, component, name,
                                                    port_item, link_item))
                           ELSE Returned(st)
                 ELSE Returned(st)
            ELSE IF blank_or_separator(port_item)
                 THEN IF ~blank_or_separator(link_item)
                      THEN ParsingError(st, "Inconsistent data found")
                      ELSE Returned(st)
                 ELSE ParsingError(st, "Inconsistent data found")
    ELSE IF item_pair[1].kind # "sep"
         THEN ParsingError(st, "Inconsistent data found")
         ELSE Returned(st)

\* "for item_pair in self.chunks(item_lines, 2)": from the i-th pair on, and
\* after the i-th pair has ended as r
RECURSIVE process_item_pairs(_, _, _, _, _)
RECURSIVE process_item_pairs_after(_, _, _, _, _)
process_item_pairs(st, component, name, pairs, i) ==
    IF i > Len(pairs) THEN Returned(st)
    ELSE process_item_pairs_after(process_item_pair(st, component, name, pairs[i]),
                                  component, name, pairs, i)

process_item_pairs_after(r, component, name, pairs, i) ==
    IF r.raised THEN r
    ELSE process_item_pairs(r.st, component, name, pairs, i + 1)

\* data.lstrip().splitlines(): the lines of the body without its leading
\* empty lines
RECURSIVE lstrip_splitlines(_)
lstrip_splitlines(data) ==
    IF data # <<>> /\ data[1].kind = "blank"
    THEN lstrip_splitlines(Tail(data))
    ELSE data

process_item(st, component, item) ==
    LET name == item.name
        item_lines == lstrip_splitlines(item.data)
    IN IF component = "switch" /\ ~switch_all_ports_fullmatch(item_lines[1])
       THEN ParsingError(st, "Could not find all port information for item")
       ELSE process_item_pairs(st, component, name,
                               chunks(IF component = "switch"
                                      THEN Tail(item_lines)  \* del item_lines[0]
                                      ELSE item_lines, 2), 1)

\* the body of "for data_chunk in input_data_chunks" in collect
process_data_chunk(st, data_chunk) ==
    LET item_lines == lstrip_splitlines(data_chunk.data)
        match_switch == item_lines # <<>> /\ switch_all_ports_match(item_lines[1])
    IN process_item(st, IF match_switch THEN "switch" ELSE "ca", data_chunk)

\* "for data_chunk in input_data_chunks": from the i-th chunk on, and after
\* the i-th chunk has ended as r
RECURSIVE process_data_chunks(_, _, _)
RECURSIVE process_data_chunks_after(_, _, _)
process_data_chunks(st, content, i) ==
    IF i > Len(content) THEN Returned(st)
    ELSE process_data_chunks_after(process_data_chunk(st, content[i]), content, i)

process_data_chunks_after(r, content, i) ==
    IF r.raised THEN r
    ELSE process_data_chunks(r.st, content, i + 1)

----------------------------------------------------------------------------
(* The Stderr Classifier.  A line of stderr is a record naming the pattern *)
(* it matches (kind) and the groups that pattern captures (labels).        *)

StderrLine(kind, labels) == [kind |-> kind, labels |-> labels]

bad_status_error_prog_match(line)   == line.kind = "bad_status"
query_failed_error_prog_match(line) == line.kind = "query_failed"
mad_rpc_recv_failed_prog_match(line) == line.kind = "recv_failed"
mad_rpc_failed_error_prog_match(line) == line.kind = "mad_rpc_failed"
query_cap_mask_error_prog_match(line) == line.kind = "query_cap_mask"
print_error_prog_match(line)        == line.kind = "print_error"

\* the names of stderr_metrics, in the order of the list
stderr_metric_names ==
    <<"infiniband_bad_status_error", "infiniband_query_failed_error",
      "infiniband_mad_rpc_failed_error", "infiniband_query_cap_mask_error",
      "infiniband_print_error">>

\* error.add_metric(labels, 1) in the process_* methods
add_stderr_metric(acc, name, line) ==
    [acc EXCEPT !.families[name] =
        Append(@, [labels |-> line.labels, value |-> IntVal(Nat2Limbs(1))])]

\* the body of "for line in stderr.splitlines()"
build_stderr_line(acc, line) ==
    IF bad_status_error_prog_match(line)
    THEN add_stderr_metric(acc, "infiniband_bad_status_error", line)
    ELSE IF query_failed_error_prog_match(line)
    THEN add_stderr_metric(acc, "infiniband_query_failed_error", line)
    ELSE IF mad_rpc_recv_failed_prog_match(line)
    THEN acc
    ELSE IF mad_rpc_failed_error_prog_match(line)
    THEN add_stderr_metric(acc, "infiniband_mad_rpc_failed_error", line)
    ELSE IF query_cap_mask_error_prog_match(line)
    THEN add_stderr_metric(acc, "infiniband_query_cap_mask_error", line)
    ELSE IF print_error_prog_match(line)
    THEN add_stderr_metric(acc, "infiniband_print_error", line)
    ELSE [acc EXCEPT !.error = TRUE,
                     !.log = Append(@, LogRecord("error",
                                "Could not process line from STDERR", <<line.kind>>))]

RECURSIVE build_stderr_lines(_, _, _)
build_stderr_lines(acc, lines, i) ==
    IF i > Len(lines) THEN acc
    ELSE build_stderr_lines(build_stderr_line(acc, lines[i]), lines, i + 1)

Family(name, samples) == [name |-> name, samples |-> samples]

\* build_stderr_metrics: the five families, the error flag, and the log
build_stderr_metrics(lines) ==
    LET acc == build_stderr_lines(
                   [families |-> [n \in Range(stderr_metric_names) |-> <<>>],
                    error |-> FALSE, log |-> <<>>],
                   lines, 1)
    IN [stderr_metrics |-> [i \in DOMAIN stderr_metric_names |->
                               Family(stderr_metric_names[i],
                                      acc.families[stderr_metric_names[i]])],
        error |-> acc.error,
        log |-> acc.log]

----------------------------------------------------------------------------
(* One collection cycle.                                                   *)

\* init_metrics: a new, empty family under every gauge and counter key
\* init_metrics, had it kept the families of the cycle before
init_metrics_kept(m) ==
    [k \in DOMAIN m \cup family_keys |->
        IF k \in DOMAIN m THEN m[k] ELSE <<>>]

init_metrics(m) ==
    [k \in DOMAIN m \cup family_keys |->
        IF k \in family_keys THEN <<>> ELSE m[k]]

\* A catalogued family is named by its key, which stands for
\* 'infiniband_' + key.lower()
yield_families(st, names) ==
    [i \in DOMAIN names |-> Family(names[i], st.metrics[names[i]])]

\* collect, from "self.scrape_with_errors = False" to the tool's output
\* collect_fetch, had it run the tool whatever self.input_file
collect_fetch_tool_always(self, err) ==
    LET st0 == [metrics |-> init_metrics(self.metrics),
                scrape_with_errors |-> FALSE,
                launched |-> <<>>, log |-> <<>>]
        st1 == [st0 EXCEPT !.launched =
                   Append(@, Process("ibqueryerrors", "", ""))]
        cls == build_stderr_metrics(err)
        duration == <<Family("infiniband_ibqueryerrors_duration_seconds",
                             <<[labels |-> <<>>, value |-> Seconds]>>)>>
    IN IF err # <<>>
       THEN [st |-> [st1 EXCEPT !.log = @ \o cls.log,
                                !.scrape_with_errors =
                                    IF cls.error THEN TRUE ELSE @],
             emitted |-> cls.stderr_metrics \o duration]
       ELSE [st |-> st1, emitted |-> duration]

collect_fetch(self, err) ==
    LET st0 == [metrics |-> init_metrics(self.metrics),
                scrape_with_errors |-> FALSE,
                launched |-> <<>>, log |-> <<>>]
    IN IF input_file
       THEN [st |-> st0, emitted |-> <<>>]
       ELSE LET st1 == [st0 EXCEPT !.launched =
                           Append(@, Process("ibqueryerrors", "", ""))]
                cls == build_stderr_metrics(err)
                duration == <<Family("infiniband_ibqueryerrors_duration_seconds",
                                     <<[labels |-> <<>>, value |-> Seconds]>>)>>
            IN IF err # <<>>
               THEN [st |-> [st1 EXCEPT !.log = @ \o cls.log,
                                        !.scrape_with_errors =
                                            IF cls.error THEN TRUE ELSE @],
                     emitted |-> cls.stderr_metrics \o duration]
               ELSE [st |-> st1, emitted |-> duration]

\* collect, the body of the try statement up to the yields: the outcome
\* of the parse
collect_try(st, out) ==
    IF out.lead = ""
    THEN process_data_chunks(st, out.devices, 1)
    ELSE ParsingError(st, "Inconsistent input content detected")

\* collect_except, had "except ParsingError" not set self.scrape_with_errors
collect_except_flag_unset(r) ==
    IF r.raised
    THEN [st |-> [r.st EXCEPT !.log = Append(@, LogRecord("error", r.msg, <<>>))],
          emitted |-> <<>>, raised |-> TRUE]
    ELSE [st |-> r.st,
          emitted |-> yield_families(r.st, counter_names)
                        \o yield_families(r.st, gauge_names),
          raised |-> FALSE]

\* collect_except, had the families been yielded after the try statement
collect_except_yield_after(r) ==
    IF r.raised
    THEN [st |-> [r.st EXCEPT !.scrape_with_errors = TRUE,
                              !.log = Append(@, LogRecord("error", r.msg, <<>>))],
          emitted |-> yield_families(r.st, counter_names)
                        \o yield_families(r.st, gauge_names),
          raised |-> TRUE]
    ELSE [st |-> r.st,
          emitted |-> yield_families(r.st, counter_names)
                        \o yield_families(r.st, gauge_names),
          raised |-> FALSE]

\* collect, the yields that end the try statement and its except clause,
\* the parse having ended as r
collect_except(r) ==
    IF r.raised
    THEN [st |-> [r.st EXCEPT !.scrape_with_errors = TRUE,
                              !.log = Append(@, LogRecord("error", r.msg, <<>>))],
          emitted |-> <<>>, raised |-> TRUE]
    ELSE [st |-> r.st,
          emitted |-> yield_families(r.st, counter_names)
                        \o yield_families(r.st, gauge_names),
          raised |-> FALSE]

\* collect, from re.split to the end of the except clause
collect_parse(st, out) == collect_except(collect_try(st, out))

\* collect, the two families that close the cycle
collect_finish(st) ==
    <<Family("infiniband_scrape_duration_seconds",
             <<[labels |-> <<>>, value |-> Seconds]>>),
      Family("infiniband_scrape_ok",
             <<[labels |-> <<>>,
                value |-> IntVal(Nat2Limbs(IF st.scrape_with_errors THEN 0 ELSE 1))]>>)>>

\* collect, consumed to its end: the object after it and all it yielded
collect_yielded(f, p) ==
    [st |-> p.st,
     emitted |-> f.emitted \o p.emitted \o collect_finish(p.st),
     raised |-> p.raised]

collect_from(f, out) == collect_yielded(f, collect_parse(f.st, out))

collect(self, out, err) == collect_from(collect_fetch(self, err), out)

----------------------------------------------------------------------------
(* The inputs of the cycles.                                               *)

MaxDevices == 2

SeqsUpTo(S, n) == UNION {[1..k -> S] : k \in 0..n}

Remote(guid, port, name) ==
    [Width |-> "4", Speed |-> "25.0",
     remote_GUID |-> guid, remote_port |-> port, node_name |-> name]

Device(name, data) == [name |-> name, data |-> data]

\* a switch: the port ALL line, port 0, an Active port with an 8 bit counter
\* above its threshold, and a closing "##" line
dev_switch ==
    Device("sw1",
      << AllPortsLine(TRUE),
         PortLine("0x1", "0", <<Token("PortXmitData", Nat2Limbs(9))>>), JunkLine,
         PortLine("0x1", "1", <<Token("LinkDownedCounter", Nat2Limbs(200)),
                                Token("PortXmitData", Nat2Limbs(5))>>),
         LinkLine(TRUE, "Active", Remote("0x2", "1", "node2")),
         SepLine >>)

\* a channel adapter: an Active port, and a Down port whose line lists a
\* name the catalog does not have
dev_ca ==
    Device("node2",
      << BlankLine,
         PortLine("0x2", "1", <<Token("SymbolErrorCounter", Nat2Limbs(3))>>),
         LinkLine(TRUE, "Active", Remote("0x1", "1", "sw1")),
         PortLine("0x2", "2", <<Token("BarCounter", Nat2Limbs(1))>>),
         LinkLine(TRUE, "Down", Remote("", "", "")) >>)

\* a channel adapter with two Active ports: the first lists a name the
\* catalog does not have, next to a 64 bit counter at 2 ** 63
dev_unknown ==
    Device("node3",
      << PortLine("0x3", "1", <<Token("FooCounter", Nat2Limbs(1)),
                                Token("PortRcvData", Pow2(63))>>),
         LinkLine(TRUE, "Active", Remote("0x1", "2", "sw1")),
         PortLine("0x3", "2", <<Token("PortRcvErrors", Nat2Limbs(9))>>),
         LinkLine(TRUE, "Active", Remote("0x1", "4", "sw1")) >>)

\* a channel adapter whose port line lists the name of a gauge
dev_gauge ==
    Device("node4",
      << PortLine("0x4", "1", <<Token("Speed", Nat2Limbs(5)),
                                Token("PortXmitPkts", Nat2Limbs(1))>>),
         LinkLine(TRUE, "Active", Remote("0x1", "3", "sw1")) >>)

\* a channel adapter whose body breaks off after an Active port
dev_broken ==
    Device("node5",
      << PortLine("0x5", "1", <<Token("LinkErrorRecoveryCounter", Nat2Limbs(255))>>),
         LinkLine(TRUE, "Active", Remote("0x1", "3", "sw1")),
         JunkLine, JunkLine >>)

Devices == {dev_switch, dev_ca, dev_unknown, dev_gauge, dev_broken}

Report(lead, devices) == [lead |-> lead, devices |-> devices]

\* what ibqueryerrors prints, or the file holds: text before the first
\* "Errors for" header (lead) and the devices after it
Reports ==
    {Report("", d) : d \in SeqsUpTo(Devices, MaxDevices)}
        \cup {Report("junk", <<dev_switch>>)}

StderrInputs ==
    { <<>>,
      <<StderrLine("bad_status", <<"DR path slid 0; dlid 0; 0,1", "110", "timeout">>)>>,
      <<StderrLine("bad_status", <<"DR path slid 0; dlid 0; 0,1", "110", "timeout">>),
        StderrLine("other", <<>>)>> }

\* the node-name map the collector is built with: it names one of the
\* devices of the reports and leaves the others unnamed
NodeNameMap == [g \in {"0x1"} |-> "leaf1"]

----------------------------------------------------------------------------
(* The collector behind the single-threaded WSGI server: one scrape runs   *)
(* collect() to its end before the next one starts.                        *)

\* the object as the running operation finds it
Self == [metrics |-> metrics, scrape_with_errors |-> scrape_with_errors]

\* a new object: the fields __init__ sets
NewSelf == [metrics |-> <<>>, scrape_with_errors |-> FALSE]

NoBefore == [scrape_with_errors |-> FALSE, samples |-> FALSE]

\* InfinibandCollector.__init__
Init ==
    /\ can_reset_counter \in BOOLEAN
    /\ input_file \in BOOLEAN
    /\ node_name = NodeNameMap
    /\ scrape_with_errors = NewSelf.scrape_with_errors
    /\ metrics = NewSelf.metrics
    /\ stdout = Report("", <<>>)
    /\ stderr = <<>>
    /\ emitted = <<>>
    /\ launched = <<>>
    /\ log = <<>>
    /\ raised = FALSE
    /\ before = NoBefore
    /\ pc = "serving"

Scrape(out, err) ==
    \E r \in {collect(Self, out, err)} :
       /\ metrics' = r.st.metrics
       /\ scrape_with_errors' = r.st.scrape_with_errors
       /\ launched' = r.st.launched
       /\ log' = r.st.log
       /\ emitted' = r.emitted
       /\ raised' = r.raised
       /\ stdout' = out
       /\ stderr' = err
       /\ before' = [scrape_with_errors |-> scrape_with_errors,
                      samples |-> \E k \in DOMAIN metrics : metrics[k] # <<>>]
       /\ pc' = "scraped"
       /\ UNCHANGED <<can_reset_counter, input_file, node_name>>

\* a scrape of a collector started with --from-file
ScrapeFile ==
    /\ pc = "serving"
    /\ input_file
    /\ \E out \in Reports : Scrape(out, <<>>)

\* a scrape of a collector that runs ibqueryerrors
ScrapeTool ==
    /\ pc = "serving"
    /\ ~input_file
    /\ \E out \in Reports, err \in StderrInputs : Scrape(out, err)

\* the response is sent: the generator and what it held are gone, the
\* object keeps its fields
Respond ==
    /\ pc = "scraped"
    /\ pc' = "serving"
    /\ stdout' = Report("", <<>>)
    /\ stderr' = <<>>
    /\ emitted' = <<>>
    /\ launched' = <<>>
    /\ log' = <<>>
    /\ raised' = FALSE
    /\ before' = NoBefore
    /\ UNCHANGED <<can_reset_counter, input_file, node_name,
                   scrape_with_errors, metrics>>

Next == ScrapeFile \/ ScrapeTool \/ Respond

Spec == Init /\ [][Next]_vars

----------------------------------------------------------------------------
(* parse_item alone: one Active port whose port line lists the tokens      *)
(* drawn at the start, parsed by a collector whose families are empty.     *)

\* the bit widths of the catalog
Widths == {counter_table[i].bits : i \in DOMAIN counter_table}

\* the values around the thresholds and the maxima of every width
CounterValues ==
    {Nat2Limbs(0)} \cup
    UNION {{Pow2Minus1(b - 1), Pow2(b - 1), Pow2Minus1(b)} : b \in Widths}

ListedNames == Range(counter_names) \cup Range(gauge_names) \cup {"FooCounter"}

Tokens == {Token(n, v) : n \in ListedNames, v \in CounterValues}

Companions == {Token("FooCounter", Nat2Limbs(1)), Token("PortXmitData", Nat2Limbs(5))}

\* the bracketed lists of the port line: one token, alone or after a
\* companion (a name the catalog lacks, or a counter that may be listed twice)
TokenLists ==
    {<<>>} \cup {<<t>> : t \in Tokens}
           \cup {<<c, t>> : c \in Companions, t \in Tokens}

ItemRemote == Remote("0x1", "1", "sw1")

InitCounter ==
    /\ can_reset_counter \in BOOLEAN
    /\ input_file = FALSE
    /\ node_name = NodeNameMap
    /\ scrape_with_errors = FALSE
    /\ metrics = init_metrics(NewSelf.metrics)
    /\ \E tokens \in TokenLists :
          stdout = Report("", <<Device("node2",
                      <<PortLine("0x2", "1", tokens),
                        LinkLine(TRUE, "Active", ItemRemote)>>)>>)
    /\ stderr = <<>>
    /\ emitted = <<>>
    /\ launched = <<>>
    /\ log = <<>>
    /\ raised = FALSE
    /\ before = NoBefore
    /\ pc = "item"

\* the call of parse_item in process_item
ParseItem ==
    /\ pc = "item"
    /\ \E r \in {parse_item([metrics |-> metrics,
                             scrape_with_errors |-> scrape_with_errors,
                             launched |-> launched, log |-> log],
                            "ca", stdout.devices[1].name,
                            stdout.devices[1].data[1],
                            stdout.devices[1].data[2])} :
          /\ metrics' = r.metrics
          /\ scrape_with_errors' = r.scrape_with_errors
          /\ launched' = r.launched
          /\ log' = r.log
    /\ pc' = "parsed"
    /\ UNCHANGED <<can_reset_counter, input_file, node_name, stdout, stderr,
                   emitted, raised, before>>

NextCounter == ParseItem

SpecCounter == InitCounter /\ [][NextCounter]_vars

----------------------------------------------------------------------------
(* process_item alone: one device whose body is drawn at the start, as     *)
(* the loop over the data chunks of collect hands it over.                 *)

MaxPairs == 2

PairRemote == Remote("0x9", "7", "spine1")
NoRemote == Remote("", "", "")

\* the two lines at the i-th place of a body, by template
PairAt(t, i) ==
    CASE t = "active" ->
           <<PortLine("0x2", port_texts[i],
                      <<Token("SymbolErrorCounter", Nat2Limbs(3)),
                        Token("PortXmitData", Nat2Limbs(5))>>),
             LinkLine(TRUE, "Active", PairRemote)>>
      [] t = "active_empty" ->
           <<PortLine("0x2", port_texts[i], <<>>),
             LinkLine(TRUE, "Active", PairRemote)>>
      [] t = "down" ->
           <<PortLine("0x2", port_texts[i], <<Token("PortRcvErrors", Nat2Limbs(9))>>),
             LinkLine(TRUE, "Down", NoRemote)>>
      [] t = "zero_active" ->
           <<PortLine("0x2", "0", <<Token("PortXmitData", Nat2Limbs(9))>>),
             LinkLine(TRUE, "Active", PairRemote)>>
      [] t = "zero_junk" ->
           <<PortLine("0x2", "0", <<>>), JunkLine>>
      [] t = "init" ->
           <<PortLine("0x2", port_texts[i], <<Token("PortRcvErrors", Nat2Limbs(9))>>),
             LinkLine(TRUE, "Init", NoRemote)>>
      [] t = "no_head" ->
           <<PortLine("0x2", port_texts[i], <<Token("PortRcvErrors", Nat2Limbs(9))>>),
             LinkLine(FALSE, "Active", PairRemote)>>
      [] t = "blank" -> <<BlankLine, BlankLine>>
      [] t = "sep_blank" -> <<SepLine, BlankLine>>
      [] t = "blank_junk" -> <<BlankLine, JunkLine>>
      [] t = "junk" -> <<JunkLine, JunkLine>>
      [] t = "unknown" ->
           <<PortLine("0x2", port_texts[i],
                      <<Token("FooCounter", Nat2Limbs(1)),
                        Token("LinkDownedCounter", Nat2Limbs(200))>>),
             LinkLine(TRUE, "Active", PairRemote)>>
      [] t = "duplicate" ->
           <<PortLine("0x2", port_texts[i],
                      <<Token("PortXmitData", Nat2Limbs(5)),
                        Token("PortXmitData", Nat2Limbs(6))>>),
             LinkLine(TRUE, "Active", PairRemote)>>
      [] t = "gauge" ->
           <<PortLine("0x2", port_texts[i], <<Token("Width", Nat2Limbs(9))>>),
             LinkLine(TRUE, "Active", PairRemote)>>

PairTemplates ==
    {"active", "active_empty", "down", "zero_active", "zero_junk", "init",
     "no_head", "blank", "sep_blank", "blank_junk", "junk", "unknown",
     "duplicate", "gauge"}

RECURSIVE PairsFrom(_, _)
PairsFrom(ts, i) ==
    IF i > Len(ts) THEN <<>> ELSE PairAt(ts[i], i) \o PairsFrom(ts, i + 1)

HeadLines(h) ==
    CASE h = "none" -> <<>>
      [] h = "all_ports" -> <<AllPortsLine(TRUE)>>
      [] h = "all_ports_more" -> <<AllPortsLine(FALSE)>>

TailLines(t) ==
    CASE t = "none" -> <<>>
      [] t = "sep" -> <<SepLine>>
      [] t = "junk" -> <<JunkLine>>

DeviceInputs ==
    {Device("node2", HeadLines(h) \o PairsFrom(ts, 1) \o TailLines(t)) :
        h \in {"none", "all_ports", "all_ports_more"},
        ts \in SeqsUpTo(PairTemplates, MaxPairs),
        t \in {"none", "sep", "junk"}}

InitDevice ==
    /\ can_reset_counter \in BOOLEAN
    /\ input_file = FALSE
    /\ node_name = NodeNameMap
    /\ scrape_with_errors = FALSE
    /\ metrics = init_metrics(NewSelf.metrics)
    /\ \E d \in DeviceInputs : stdout = Report("", <<d>>)
    /\ stderr = <<>>
    /\ emitted = <<>>
    /\ launched = <<>>
    /\ log = <<>>
    /\ raised = FALSE
    /\ before = NoBefore
    /\ pc = "chunk"

\* one turn of "for data_chunk in input_data_chunks" in collect
ProcessDataChunk ==
    /\ pc = "chunk"
    /\ \E r \in {process_data_chunk([metrics |-> metrics,
                                     scrape_with_errors |-> scrape_with_errors,
                                     launched |-> launched, log |-> log],
                                    stdout.devices[1])} :
          /\ metrics' = r.st.metrics
          /\ scrape_with_errors' = r.st.scrape_with_errors
          /\ launched' = r.st.launched
          /\ log' = r.st.log
          /\ raised' = r.raised
    /\ pc' = "processed"
    /\ UNCHANGED <<can_reset_counter, input_file, node_name, stdout, stderr,
                   emitted, before>>

NextDevice == ProcessDataChunk

SpecDevice == InitDevice /\ [][NextDevice]_vars

----------------------------------------------------------------------------
(* What a report holds, read off its lines without running the parser.     *)

\* the lines of a body from its first non-empty line on
Unled(data) ==
    LET full == {i \in DOMAIN data : data[i].kind # "blank"}
    IN IF full = {} THEN <<>>
       ELSE SubSeq(data, CHOOSE i \in full : \A j \in full : i <= j, Len(data))

\* the body opens with the line of the aggregate of all ports
OpensWithAllPorts(d) ==
    Unled(d.data) # <<>> /\ Unled(d.data)[1].kind = "allports"

\* the lines of the ports: the body after the aggregate line, if any
PortLines(d) ==
    IF OpensWithAllPorts(d) THEN Tail(Unled(d.data)) ELSE Unled(d.data)

\* the places of the (port line, link line) pairs of a device
PairPlaces(d) == 1..(Len(PortLines(d)) \div 2)
PortLineAt(d, j) == PortLines(d)[2 * j - 1]
LinkLineAt(d, j) == PortLines(d)[2 * j]

\* a pair of lines the grammar of the report does not allow
MalformedPair(p, l) ==
    IF p.kind = "port"
    THEN int(p.port) > 0 /\ ~(l.kind = "link" /\ l.head)
    ELSE IF p.kind \in {"blank", "sep"}
    THEN l.kind \notin {"blank", "sep"}
    ELSE TRUE

MalformedDevice(d) ==
    \/ OpensWithAllPorts(d) /\ ~Unled(d.data)[1].full
    \/ \E j \in PairPlaces(d) : MalformedPair(PortLineAt(d, j), LinkLineAt(d, j))
    \/ /\ Len(PortLines(d)) % 2 = 1
       /\ PortLines(d)[Len(PortLines(d))].kind # "sep"

\* the report has a structural anomaly
StructuralAnomaly(report) ==
    \/ report.lead # ""
    \/ \E i \in DOMAIN report.devices : MalformedDevice(report.devices[i])

\* the j-th pair of the device is a port numbered 1 or more with an Active link
ActivePort(d, j) ==
    /\ PortLineAt(d, j).kind = "port"
    /\ int(PortLineAt(d, j).port) > 0
    /\ LinkLineAt(d, j).kind = "link"
    /\ LinkLineAt(d, j).state = "Active"

Catalogued(name) == \E i \in DOMAIN counter_table : counter_table[i].name = name

\* an Active port of the report lists a name the catalog does not have
UnknownCounterListed(report) ==
    \E i \in DOMAIN report.devices :
       \E j \in PairPlaces(report.devices[i]) :
          /\ ActivePort(report.devices[i], j)
          /\ \E k \in DOMAIN PortLineAt(report.devices[i], j).counters :
                ~Catalogued(PortLineAt(report.devices[i], j).counters[k].name)

KnownStderrKinds ==
    {"bad_status", "query_failed", "recv_failed", "mad_rpc_failed",
     "query_cap_mask", "print_error"}

\* the tool ran and printed a line no pattern matches
UnrecognizedStderrLine ==
    ~input_file /\ \E i \in DOMAIN stderr : stderr[i].kind \notin KnownStderrKinds

\* an anomaly occurred in the running cycle
CycleAnomaly ==
    \/ StructuralAnomaly(stdout)
    \/ UnknownCounterListed(stdout)
    \/ UnrecognizedStderrLine

FamiliesNamed(name) == {i \in DOMAIN emitted : emitted[i].name = name}

OneSample(value) == <<[labels |-> <<>>, value |-> value]>>

ScrapeOkSample(n) == OneSample(IntVal(Nat2Limbs(n)))

----------------------------------------------------------------------------
(* C1: every completed cycle yields infiniband_scrape_ok exactly once, as  *)
(* the last family, with the value 0 if and only if an anomaly occurred in *)
(* the cycle (a structural parse failure, a listed name the catalog lacks, *)
(* an unrecognized stderr line), and 1 otherwise.                          *)
ScrapeOkIffNoAnomaly ==
    pc = "scraped" =>
       /\ emitted # <<>>
       /\ FamiliesNamed("infiniband_scrape_ok") = {Len(emitted)}
       /\ emitted[Len(emitted)].samples =
             ScrapeOkSample(IF CycleAnomaly THEN 0 ELSE 1)

\* a tool cycle over a sound report, degraded by a stderr line alone
ScrapeOkIffNoAnomalyWitness ==
    /\ pc = "scraped"
    /\ stdout.devices # <<>>
    /\ ~StructuralAnomaly(stdout)
    /\ ~UnknownCounterListed(stdout)
    /\ UnrecognizedStderrLine
    /\ emitted[Len(emitted)] = Family("infiniband_scrape_ok", ScrapeOkSample(0))

----------------------------------------------------------------------------
(* C2: when a device body has a structural anomaly the whole report is     *)
(* dropped: the cycle yields no counter or gauge sample, not even of the   *)
(* devices parsed before the anomaly, and still yields                     *)
(* infiniband_scrape_duration_seconds and infiniband_scrape_ok = 0.        *)
StructuralAnomalyDropsReport ==
    pc = "scraped" /\ StructuralAnomaly(stdout) =>
       /\ \A i \in DOMAIN emitted :
             emitted[i].name \in family_keys => emitted[i].samples = <<>>
       /\ Cardinality(FamiliesNamed("infiniband_scrape_duration_seconds")) = 1
       /\ emitted[Len(emitted)] = Family("infiniband_scrape_ok", ScrapeOkSample(0))

\* the anomaly came after a device whose samples the parser had taken
StructuralAnomalyDropsReportWitness ==
    /\ pc = "scraped"
    /\ Len(stdout.devices) = 2
    /\ ~MalformedDevice(stdout.devices[1])
    /\ MalformedDevice(stdout.devices[2])
    /\ metrics["Speed"] # <<>>
    /\ emitted[Len(emitted)] = Family("infiniband_scrape_ok", ScrapeOkSample(0))

----------------------------------------------------------------------------
(* The Overflow Policy, seen from outside: reset_counter logs one record   *)
(* whichever branch it takes, and the record names the counter.            *)

ResetMessages == {"Reseting counters", "Counters is maxed out"}

\* the calls of reset_counter made for the counter
ResetCallsFor(counter) ==
    {i \in DOMAIN log : log[i].msg \in ResetMessages /\ log[i].subject[3] = counter}

\* the tokens of the port line parse_item was given
ListedTokens == stdout.devices[1].data[1].counters

\* the value the port line gives the name: that of its last listing
ListedValue(name) ==
    LET at == {k \in DOMAIN ListedTokens : ListedTokens[k].name = name}
    IN ListedTokens[CHOOSE k \in at : \A j \in at : j <= k].value

BitsOf(name) ==
    counter_table[CHOOSE i \in DOMAIN counter_table : counter_table[i].name = name].bits

----------------------------------------------------------------------------
(* C3: for a catalogued counter of 4, 8, 16 or 32 bits listed on an Active *)
(* port, the at-risk branch (reset_counter) is taken if and only if the    *)
(* value is at least 2 ** (bits - 1), and then once.                       *)
AtRiskFromHalfRange ==
    pc = "parsed" =>
       \A k \in DOMAIN ListedTokens :
          LET name == ListedTokens[k].name
          IN Catalogued(name) /\ BitsOf(name) \in {4, 8, 16, 32} =>
                Cardinality(ResetCallsFor(name)) =
                   IF GE(ListedValue(name), Pow2(BitsOf(name) - 1)) THEN 1 ELSE 0

\* a 32 bit counter at 2 ** 31 exactly took the branch
AtRiskFromHalfRangeWitness ==
    /\ pc = "parsed"
    /\ ListedTokens = <<Token("PortXmitWait", Pow2(31))>>
    /\ Cardinality(ResetCallsFor("PortXmitWait")) = 1

----------------------------------------------------------------------------
(* C4: a counter of 64 bits never triggers the Overflow Policy, whatever   *)
(* its value: no reset request and no maxed-out warning is made for it.    *)
(* The code compares every width alike, so 2 ** 63 triggers it.            *)
NoOverflowPolicyFor64Bits ==
    pc = "parsed" =>
       \A k \in DOMAIN ListedTokens :
          LET name == ListedTokens[k].name
          IN Catalogued(name) /\ BitsOf(name) = 64 => ResetCallsFor(name) = {}

----------------------------------------------------------------------------
(* The observations a report holds and the samples they stand for.         *)

\* the parser gets as far as the j-th pair of the i-th device and takes it
Reached(report, i, j) ==
    /\ report.lead = ""
    /\ \A h \in 1..(i - 1) : ~MalformedDevice(report.devices[h])
    /\ ~(OpensWithAllPorts(report.devices[i]) /\ ~Unled(report.devices[i].data)[1].full)
    /\ \A h \in 1..j :
          ~MalformedPair(PortLineAt(report.devices[i], h),
                         LinkLineAt(report.devices[i], h))

\* the label values of the samples of the j-th pair of the device
LabelsAt(d, j) ==
    <<IF OpensWithAllPorts(d) THEN "switch" ELSE "ca",
      d.name, PortLineAt(d, j).guid, PortLineAt(d, j).port,
      LinkLineAt(d, j).remote_GUID, LinkLineAt(d, j).remote_port,
      LinkLineAt(d, j).node_name>>

\* the listings (device, pair, token) of a counter of less than 64 bits at
\* or above half its range, on the Active ports the parser takes
AtRiskListings(report) ==
    {o \in UNION {UNION {{<<i, j, k>> :
                            k \in DOMAIN PortLineAt(report.devices[i], j).counters} :
                         j \in {h \in PairPlaces(report.devices[i]) :
                                   ActivePort(report.devices[i], h)}} :
                  i \in DOMAIN report.devices} :
        LET t == PortLineAt(report.devices[o[1]], o[2]).counters[o[3]]
        IN /\ Reached(report, o[1], o[2])
           /\ Catalogued(t.name)
           /\ BitsOf(t.name) < 64
           /\ GE(t.value, Pow2(BitsOf(t.name) - 1))}

\* what a listing asks of the reset tool: the GUID, the port, the counter
RequestOf(report, o) ==
    <<PortLineAt(report.devices[o[1]], o[2]).guid,
      PortLineAt(report.devices[o[1]], o[2]).port,
      PortLineAt(report.devices[o[1]], o[2]).counters[o[3]].name>>

IsPerfquery(p) == p.prog = "perfquery"
IsResetRecord(r) == r.msg = "Reseting counters"

\* the reset tool's launches of the running cycle, and the records logged
\* with them
PerfQueries == SelectSeq(launched, IsPerfquery)
ResetRecords == SelectSeq(log, IsResetRecord)

\* the launches that carry the request
LaunchesFor(q) ==
    {r \in DOMAIN PerfQueries :
        /\ PerfQueries[r].guid = q[1]
        /\ PerfQueries[r].port = q[2]
        /\ r \in DOMAIN ResetRecords
        /\ ResetRecords[r].subject[3] = q[3]}

----------------------------------------------------------------------------
----------------------------------------------------------------------------
(* The samples a report stands for, read off its lines.                    *)

\* the places of the pairs of an Active port numbered 1 or higher, in the
\* order of the report: <<device, pair>>
ActivePlaces(d) ==
    SelectSeq([j \in 1..Len(PortLines(d)) \div 2 |-> j],
              LAMBDA j : ActivePort(d, j))

RECURSIVE ActiveFrom(_, _)
ActiveFrom(report, i) ==
    IF i > Len(report.devices) THEN <<>>
    ELSE [k \in DOMAIN ActivePlaces(report.devices[i]) |->
             <<i, ActivePlaces(report.devices[i])[k]>>]
         \o ActiveFrom(report, i + 1)

\* the value the port line lists for the name (the last one listed)
ListedAt(d, j, name) ==
    LET cs == PortLineAt(d, j).counters
        at == {k \in DOMAIN cs : cs[k].name = name}
    IN cs[CHOOSE k \in at : \A h \in at : h <= k].value

Lists(d, j, name) ==
    \E k \in DOMAIN PortLineAt(d, j).counters :
       PortLineAt(d, j).counters[k].name = name

\* the samples of a gauge family: one per Active port, the link line's value
ExpectedGauge(report, gauge) ==
    LET places == ActiveFrom(report, 1)
    IN [k \in DOMAIN places |->
           [labels |-> LabelsAt(report.devices[places[k][1]], places[k][2]),
            value |-> StrVal(LinkLineAt(report.devices[places[k][1]],
                                        places[k][2])[gauge])]]

\* the samples of a counter family: one per Active port that lists it
ExpectedCounter(report, counter) ==
    LET places == SelectSeq(ActiveFrom(report, 1),
                            LAMBDA o : Lists(report.devices[o[1]], o[2], counter))
    IN [k \in DOMAIN places |->
           [labels |-> LabelsAt(report.devices[places[k][1]], places[k][2]),
            value |-> IntVal(ListedAt(report.devices[places[k][1]],
                                      places[k][2], counter))]]

Expected(report, key) ==
    IF key \in Range(gauge_names) THEN ExpectedGauge(report, key)
    ELSE ExpectedCounter(report, key)

----------------------------------------------------------------------------
(* C6: a counter name on a port line that the catalog does not hold adds   *)
(* no sample to any family, marks the cycle degraded, and leaves every     *)
(* other counter and gauge as it would be without it.  The source appends  *)
(* the value of a token named Speed or Width to that gauge's family before *)
(* the catalog lookup fails.                                               *)
UnknownNameAddsNoSample ==
    pc = "scraped" /\ ~StructuralAnomaly(stdout) /\ UnknownCounterListed(stdout) =>
       /\ emitted[Len(emitted)] = Family("infiniband_scrape_ok", ScrapeOkSample(0))
       /\ \A f \in DOMAIN emitted :
             emitted[f].name \in family_keys =>
                emitted[f].samples = Expected(stdout, emitted[f].name)

----------------------------------------------------------------------------
(* C7: a well-formed device body leaves in each gauge family one sample    *)
(* per Active port numbered 1 or higher, in each counter family one sample *)
(* with the listed value per such port that lists the counter, labelled    *)
(* switch exactly when the body opens with the all-ports summary, and      *)
(* nothing for a port that is not Active, for port 0, or for a counter the *)
(* port line does not list.                                                *)
WellFormedDeviceSamples ==
    pc = "processed" /\ ~StructuralAnomaly(stdout) /\ ~UnknownCounterListed(stdout) =>
       /\ ~raised
       /\ ~scrape_with_errors
       /\ \A key \in family_keys : metrics[key] = Expected(stdout, key)

\* a switch whose port 0 has an Active link and whose port 2 is Active
WellFormedDeviceSamplesWitness ==
    /\ pc = "processed"
    /\ ~StructuralAnomaly(stdout) /\ ~UnknownCounterListed(stdout)
    /\ OpensWithAllPorts(stdout.devices[1])
    /\ \E j \in PairPlaces(stdout.devices[1]) :
          /\ PortLineAt(stdout.devices[1], j).kind = "port"
          /\ PortLineAt(stdout.devices[1], j).port = "0"
          /\ active_link_pattern_match(LinkLineAt(stdout.devices[1], j))
    /\ \E j \in PairPlaces(stdout.devices[1]) : ActivePort(stdout.devices[1], j)
    /\ Len(metrics["Speed"]) = 1
    /\ metrics["Speed"][1].labels[1] = "switch"

----------------------------------------------------------------------------
(* C8: a cycle yields what a collector just constructed yields on the same *)
(* tool output: every family starts empty and the degraded flag unset, so  *)
(* neither the samples nor the degradation of the cycle before shows.      *)
CycleStartsAfresh ==
    pc = "scraped" =>
       /\ emitted = collect(NewSelf, stdout, stderr).emitted
       /\ scrape_with_errors = collect(NewSelf, stdout, stderr).st.scrape_with_errors
       /\ metrics = collect(NewSelf, stdout, stderr).st.metrics

\* a clean cycle right after a degraded one that left samples
CycleStartsAfreshWitness ==
    /\ pc = "scraped"
    /\ before.scrape_with_errors
    /\ before.samples
    /\ ~CycleAnomaly
    /\ \E key \in family_keys : metrics[key] # <<>>
    /\ emitted[Len(emitted)] = Family("infiniband_scrape_ok", ScrapeOkSample(1))

----------------------------------------------------------------------------
(* C9: every catalogued counter and gauge family is declared in every      *)
(* cycle.  The source yields them inside the try, after the parse, so a    *)
(* cycle whose parse raises declares none of them.                         *)
EveryFamilyDeclaredEveryCycle ==
    pc = "scraped" =>
       \A key \in family_keys : Cardinality(FamiliesNamed(key)) = 1

----------------------------------------------------------------------------
(* C10: with a fixture file the tool's duration family and the standard-   *)
(* error families are not yielded and only the report's content can mark   *)
(* the cycle degraded; without one the duration family is yielded once.    *)
FixtureCycleSkipsTool ==
    pc = "scraped" =>
       /\ input_file =>
             /\ FamiliesNamed("infiniband_ibqueryerrors_duration_seconds") = {}
             /\ \A f \in DOMAIN emitted : emitted[f].name \notin Range(stderr_metric_names)
             /\ Process("ibqueryerrors", "", "") \notin Range(launched)
             /\ scrape_with_errors <=>
                   StructuralAnomaly(stdout) \/ UnknownCounterListed(stdout)
       /\ ~input_file =>
             Cardinality(FamiliesNamed("infiniband_ibqueryerrors_duration_seconds")) = 1

\* a fixture cycle parsed to its end: the catalogued families, the scrape
\* duration and scrape_ok, and nothing of the tool
FixtureCycleSkipsToolWitness ==
    /\ pc = "scraped"
    /\ input_file
    /\ stdout = Report("", <<dev_switch, dev_ca>>)
    /\ Len(emitted) = Cardinality(family_keys) + 2
    /\ emitted[Len(emitted)] = Family("infiniband_scrape_ok", ScrapeOkSample(1))

----------------------------------------------------------------------------
\* the Name Resolver: the friendly name the node-name map gives the GUID,
\* the GUID itself when it has none
NameResolver(guid) == IF guid \in DOMAIN node_name THEN node_name[guid] ELSE guid

(* C11: the local_name and remote_name labels of every sample of a counter *)
(* or gauge family are the node-name map's name for the device's and the   *)
(* remote device's GUID, or the GUID when the map has no entry.  Stated    *)
(* for the cycles that read a fixture file, where no tool stands between   *)
(* the report and the collector.  The source takes both labels from the    *)
(* report's text and consults self.node_name for the log message of        *)
(* reset_counter only.                                                     *)
LabelsResolvedByNodeNameMap ==
    pc = "scraped" /\ input_file =>
       \A f \in DOMAIN emitted :
          emitted[f].name \in family_keys =>
             \A x \in DOMAIN emitted[f].samples :
                /\ emitted[f].samples[x].labels[2] =
                      NameResolver(emitted[f].samples[x].labels[3])
                /\ emitted[f].samples[x].labels[7] =
                      NameResolver(emitted[f].samples[x].labels[5])

----------------------------------------------------------------------------
\* the pairs of the device whose port is numbered 1 or higher and whose
\* link line is well-formed but neither Active nor Down, and which the
\* parser gets to
OtherStatePlaces(report, i) ==
    {j \in PairPlaces(report.devices[i]) :
        /\ PortLineAt(report.devices[i], j).kind = "port"
        /\ PortLineAt(report.devices[i], j).port # "0"
        /\ LinkLineAt(report.devices[i], j).kind = "link"
        /\ LinkLineAt(report.devices[i], j).head
        /\ LinkLineAt(report.devices[i], j).state \notin {"Active", "Down"}
        /\ Reached(report, i, j)}

(* C12: a port numbered 1 or higher whose link-info line is well-formed    *)
(* and whose link state is neither Active nor Down is a structural anomaly *)
(* that ends the parse with a ParsingError.  The source takes every link   *)
(* line that active_link_pattern does not match as a port to skip.         *)
OtherLinkStateRaises ==
    pc = "processed" /\ OtherStatePlaces(stdout, 1) # {} => raised

----------------------------------------------------------------------------
(* build_stderr_metrics alone, over the texts the tool can write to its    *)
(* standard error: every sequence of up to MaxLines lines, each of them a  *)
(* line one of the six patterns matches, an empty line, or another line.   *)

MaxLines == 3

StderrLines ==
    { StderrLine("bad_status", <<"DR path slid 0; dlid 0; 0,1", "110", "timeout">>),
      StderrLine("bad_status", <<"DR path slid 0; dlid 0; 0,2", "110", "timeout">>),
      StderrLine("query_failed", <<"PortCounters", "sw1", "12", "3">>),
      StderrLine("recv_failed", <<>>),
      StderrLine("mad_rpc_failed", <<"Lid 12">>),
      StderrLine("query_cap_mask", <<"PortCounters", "sw1", "Lid 12", "3">>),
      StderrLine("print_error", <<"PortCounters", "sw1", "Lid 12", "3">>),
      StderrLine("blank", <<>>),       \* '' between two line ends
      StderrLine("other", <<>>) }

InitStderr ==
    /\ can_reset_counter = FALSE
    /\ input_file = FALSE
    /\ node_name = NodeNameMap
    /\ scrape_with_errors = FALSE
    /\ metrics = NewSelf.metrics
    /\ stdout = Report("", <<>>)
    /\ stderr \in SeqsUpTo(StderrLines, MaxLines)
    /\ emitted = <<>>
    /\ launched = <<>>
    /\ log = <<>>
    /\ raised = FALSE
    /\ before = NoBefore
    /\ pc = "stderr"

\* "stderr_metrics, error = self.build_stderr_metrics(ibqueryerrors_stderr)"
\* and what collect does with the two
BuildStderrMetrics ==
    /\ pc = "stderr"
    /\ \E cls \in {build_stderr_metrics(stderr)} :
          /\ emitted' = cls.stderr_metrics
          /\ scrape_with_errors' = (cls.error \/ scrape_with_errors)
          /\ log' = cls.log
    /\ pc' = "classified"
    /\ UNCHANGED <<can_reset_counter, input_file, node_name, metrics, stdout,
                   stderr, launched, raised, before>>

NextStderr == BuildStderrMetrics

SpecStderr == InitStderr /\ [][NextStderr]_vars

\* the pattern whose matches the family counts
PatternOf(family) ==
    CASE family = "infiniband_bad_status_error" -> "bad_status"
      [] family = "infiniband_query_failed_error" -> "query_failed"
      [] family = "infiniband_mad_rpc_failed_error" -> "mad_rpc_failed"
      [] family = "infiniband_query_cap_mask_error" -> "query_cap_mask"
      [] family = "infiniband_print_error" -> "print_error"

\* the tally of the label tuple in the family: the sum of its samples, each
\* of them an occurrence of value 1
Tally(family, labels) ==
    Cardinality({x \in DOMAIN family.samples :
                    /\ family.samples[x].labels = labels
                    /\ family.samples[x].value = IntVal(Nat2Limbs(1))})

LinesAttributed(kind, labels) ==
    Cardinality({i \in DOMAIN stderr :
                    stderr[i].kind = kind /\ stderr[i].labels = labels})

(* C13: the classifier tests the non-blank lines only.  The degraded flag  *)
(* is set exactly when a non-blank line matches none of the six patterns;  *)
(* a blank line and a recv-failed line add nothing and do not degrade;     *)
(* the tally of a label tuple in the family of a pattern is the number of  *)
(* lines that match the pattern with these labels, and the families hold   *)
(* nothing else.  The source tests every line of stderr.splitlines(), and  *)
(* an empty line matches no pattern.                                       *)
StderrLinesClassifiedAlone ==
    pc = "classified" =>
       /\ scrape_with_errors <=>
             \E i \in DOMAIN stderr :
                stderr[i].kind \notin KnownStderrKinds \cup {"blank"}
       /\ Len(emitted) = Len(stderr_metric_names)
       /\ \A f \in DOMAIN emitted :
             /\ emitted[f].name = stderr_metric_names[f]
             /\ \A x \in DOMAIN emitted[f].samples :
                   emitted[f].samples[x].value = IntVal(Nat2Limbs(1))
             /\ \A i \in DOMAIN stderr :
                   Tally(emitted[f], stderr[i].labels) =
                      LinesAttributed(PatternOf(emitted[f].name), stderr[i].labels)
             /\ Len(emitted[f].samples) =
                   Cardinality({i \in DOMAIN stderr :
                                   stderr[i].kind = PatternOf(emitted[f].name)})

----------------------------------------------------------------------------
(* C14: in a cycle whose report has a structural anomaly anywhere no reset *)
(* request goes to the reset tool, not even for an at-risk counter of a    *)
(* port that precedes the anomaly.  The source calls reset_counter from    *)
(* parse_item, while the report is being parsed.                           *)
NoResetInAbortedCycle ==
    pc = "scraped" /\ StructuralAnomaly(stdout) => PerfQueries = <<>>

----------------------------------------------------------------------------
(* Two generators of collect() over one collector, taken in turns at the   *)
(* yields.  Each step runs one generator from the yield it is suspended at *)
(* (or from its start) to its next yield.  self.metrics and                *)
(* self.scrape_with_errors are the object's; the tool's output, the stderr *)
(* families and the place in the generator are each generator's own, so    *)
(* here stdout, stderr, emitted and pc hold one value per generator.       *)

Cycles == {"first", "second"}

\* what the tool prints (or the fixture file holds) in these cycles
InterleavedReports ==
    {Report("", <<dev_ca>>), Report("", <<dev_switch>>), Report("junk", <<dev_switch>>)}

InterleavedStderr ==
    { <<>>, <<StderrLine("other", <<>>)>> }

At(place, k) == [at |-> place, k |-> k]

\* the keys in the order collect yields their families
yield_order == counter_names \o gauge_names

\* the object and the process-wide records as a step finds them
Shared ==
    [metrics |-> metrics, scrape_with_errors |-> scrape_with_errors,
     launched |-> launched, log |-> log]

InitInterleaved ==
    /\ can_reset_counter \in BOOLEAN
    /\ input_file \in BOOLEAN
    /\ node_name = NodeNameMap
    /\ scrape_with_errors = NewSelf.scrape_with_errors
    /\ metrics = NewSelf.metrics
    /\ stdout = [c \in Cycles |-> Report("", <<>>)]
    /\ stderr = [c \in Cycles |-> <<>>]
    /\ emitted = [c \in Cycles |-> <<>>]
    /\ launched = <<>>
    /\ log = <<>>
    /\ raised = FALSE
    /\ before = NoBefore
    /\ pc = [c \in Cycles |-> At("idle", 0)]

\* the generator runs the try statement on the object as it is now, r being
\* the outcome of the parse, and stops at its first yield: the first
\* family, or scrape_duration after a ParsingError
TryToYield(c, r, yielded) ==
    /\ metrics' = r.st.metrics
    /\ launched' = r.st.launched
    /\ IF r.raised
       THEN /\ scrape_with_errors' = TRUE
            /\ log' = Append(r.st.log, LogRecord("error", r.msg, <<>>))
            /\ emitted' = [emitted EXCEPT ![c] = yielded \o <<collect_finish(r.st)[1]>>]
            /\ pc' = [pc EXCEPT ![c] = At("scrape_duration", 0)]
       ELSE /\ scrape_with_errors' = r.st.scrape_with_errors
            /\ log' = r.st.log
            /\ emitted' = [emitted EXCEPT ![c] =
                              yielded \o <<Family(yield_order[1],
                                                  r.st.metrics[yield_order[1]])>>]
            /\ pc' = [pc EXCEPT ![c] = At("family", 1)]

\* collect() with a fixture file, from its start: nothing is yielded before
\* the try statement
StartFile(c) ==
    /\ pc[c].at = "idle"
    /\ input_file
    /\ \E out \in InterleavedReports :
          /\ \A d \in Cycles : pc[d].at # "idle" => out = stdout[d]
          /\ stdout' = [stdout EXCEPT ![c] = out]
          /\ \E r \in {collect_try([Shared EXCEPT
                                       !.scrape_with_errors = FALSE,
                                       !.metrics = init_metrics(metrics)], out)} :
                TryToYield(c, r, <<>>)
    /\ UNCHANGED <<can_reset_counter, input_file, node_name, stderr, raised, before>>

\* collect() with the tool, from its start to the first yield: the first
\* stderr family, or the tool's duration when stderr is empty
StartTool(c) ==
    /\ pc[c].at = "idle"
    /\ ~input_file
    /\ \E out \in InterleavedReports, err \in InterleavedStderr :
          /\ stdout' = [stdout EXCEPT ![c] = out]
          /\ stderr' = [stderr EXCEPT ![c] = err]
          /\ \E f \in {collect_fetch(Shared, err)} :
                /\ metrics' = f.st.metrics
                /\ scrape_with_errors' = FALSE
                /\ launched' = launched \o f.st.launched
                /\ emitted' = [emitted EXCEPT ![c] = <<f.emitted[1]>>]
                /\ IF err = <<>>
                   THEN /\ log' = log
                        /\ pc' = [pc EXCEPT ![c] = At("ibqueryerrors_duration", 0)]
                   ELSE /\ log' = log \o f.st.log
                        /\ pc' = [pc EXCEPT ![c] = At("stderr_metric", 1)]
    /\ UNCHANGED <<can_reset_counter, input_file, node_name, raised, before>>

\* "for stderr_metric in stderr_metrics: yield stderr_metric", and after the
\* last one "if error: self.scrape_with_errors = True" and the duration
YieldStderrMetric(c) ==
    /\ pc[c].at = "stderr_metric"
    /\ \E cls \in {build_stderr_metrics(stderr[c])} :
          IF pc[c].k < Len(cls.stderr_metrics)
          THEN /\ emitted' = [emitted EXCEPT ![c] =
                                 Append(@, cls.stderr_metrics[pc[c].k + 1])]
               /\ pc' = [pc EXCEPT ![c] = At("stderr_metric", pc[c].k + 1)]
               /\ UNCHANGED scrape_with_errors
          ELSE /\ scrape_with_errors' = (cls.error \/ scrape_with_errors)
               /\ emitted' = [emitted EXCEPT ![c] =
                                 Append(@, Family("infiniband_ibqueryerrors_duration_seconds",
                                                  OneSample(Seconds)))]
               /\ pc' = [pc EXCEPT ![c] = At("ibqueryerrors_duration", 0)]
    /\ UNCHANGED <<can_reset_counter, input_file, node_name, metrics, stdout, stderr,
                   launched, log, raised, before>>

\* from "yield ibqueryerrors_duration" through the try statement
Parse(c) ==
    /\ pc[c].at = "ibqueryerrors_duration"
    /\ \E r \in {collect_try(Shared, stdout[c])} : TryToYield(c, r, emitted[c])
    /\ UNCHANGED <<can_reset_counter, input_file, node_name, stdout, stderr,
                   raised, before>>

\* "yield self.metrics[counter_name]" and "yield self.metrics[gauge_name]":
\* the next family as the object holds it now; after the last one the try
\* statement ends and scrape_duration is yielded
YieldFamily(c) ==
    /\ pc[c].at = "family"
    /\ IF pc[c].k < Len(yield_order)
       THEN /\ emitted' = [emitted EXCEPT ![c] =
                              Append(@, Family(yield_order[pc[c].k + 1],
                                               metrics[yield_order[pc[c].k + 1]]))]
            /\ pc' = [pc EXCEPT ![c] = At("family", pc[c].k + 1)]
       ELSE /\ emitted' = [emitted EXCEPT ![c] = Append(@, collect_finish(Shared)[1])]
            /\ pc' = [pc EXCEPT ![c] = At("scrape_duration", 0)]
    /\ UNCHANGED <<can_reset_counter, input_file, node_name, scrape_with_errors,
                   metrics, stdout, stderr, launched, log, raised, before>>

\* "if self.scrape_with_errors: ... yield scrape_ok", and the generator ends
YieldScrapeOk(c) ==
    /\ pc[c].at = "scrape_duration"
    /\ emitted' = [emitted EXCEPT ![c] = Append(@, collect_finish(Shared)[2])]
    /\ pc' = [pc EXCEPT ![c] = At("done", 0)]
    /\ UNCHANGED <<can_reset_counter, input_file, node_name, scrape_with_errors,
                   metrics, stdout, stderr, launched, log, raised, before>>

NextInterleaved ==
    \E c \in Cycles :
       \/ StartFile(c)
       \/ StartTool(c)
       \/ YieldStderrMetric(c)
       \/ Parse(c)
       \/ YieldFamily(c)
       \/ YieldScrapeOk(c)

SpecInterleaved == InitInterleaved /\ [][NextInterleaved]_vars

\* what the cycle yields when it runs alone
Alone(c) == collect(NewSelf, stdout[c], stderr[c]).emitted

(* C15: two cycles of one collector whose steps interleave at the yields   *)
(* are isolated: each yields what it yields when it runs alone, samples    *)
(* and infiniband_scrape_ok alike.  The source keeps the families and the  *)
(* degraded flag in the collector object, which both generators write.     *)
InterleavedCyclesIsolated ==
    \A c \in Cycles : pc[c].at = "done" => emitted[c] = Alone(c)

----------------------------------------------------------------------------
(* C16: a collector started with a fixture file launches no external       *)
(* process in any cycle, neither the diagnostic tool nor the reset tool,   *)
(* whatever the fixture lists and whatever the automatic-reset setting.    *)
(* The source's reset_counter consults self.can_reset_counter alone.       *)
FixtureLaunchesNothing ==
    pc = "scraped" /\ input_file => launched = <<>>

====
